---- MODULE Spec2Model ----
(***************************************************************************)
(* MessagePool of rs/replicated_state/src/canister_state/queues/           *)
(* message_pool.rs: the store of canister messages with its deadline       *)
(* queue, load shedding queue and message id counter.                      *)
(*                                                                         *)
(* A BinaryHeap is modelled by the sequence of its entries in push order;  *)
(* peek and pop select the greatest entry under the heap's element order,  *)
(* which is all that the pool observes of a heap.                          *)
(***************************************************************************)
EXTENDS Integers, Sequences, FiniteSets, TLC

\* ------------------------------------------------------------------ bounds
\* Number of message ids the pool may hand out.
MaxIds == 3
\* Largest message byte size.
MaxSize == 2
\* Largest deadline a best-effort message carries.
MaxDeadline == 2
\* Largest value of `now` (a Time, in ticks) passed by a caller.
MaxNow == 6

\* --------------------------------------------------------------- constants
\* CoarseTime value meaning "no deadline".
NO_DEADLINE == 0
\* Ticks of Time per unit of CoarseTime.
TicksPerCoarse == 2
\* Lifetime of a guaranteed response call request in an output queue (ticks).
REQUEST_LIFETIME == 2

\* CoarseTime::floor
CoarseFloor(t) == t \div TicksPerCoarse

Times == 0..MaxNow
Sizes == 1..MaxSize
\* Deadlines a best-effort message may carry.
Deadlines == 1..MaxDeadline
Kinds == {"Request", "Response"}

\* RequestOrResponse: the kind, the message's own deadline and its byte count.
Message == [kind : Kinds, deadline : Deadlines \cup {NO_DEADLINE}, size : Sizes]

\* RequestOrResponse::count_bytes
count_bytes(msg) == msg.size
\* RequestOrResponse::is_best_effort
is_best_effort(msg) == msg.deadline # NO_DEADLINE

VARIABLES
    messages,         \* MessagePool::messages: id -> message
    size_bytes,       \* MessagePool::size_bytes
    deadline_queue,   \* MessagePool::deadline_queue: entries <<deadline, id>>
    size_queue,       \* MessagePool::size_queue: entries <<size, id>>
    next_message_id,  \* MessagePool::next_message_id
    placeholders,     \* ResponsePlaceholder values held by the caller
    panicked,         \* a panic! or failed assert! has aborted the caller
    inserted,         \* history: ids under which a message was inserted
    removed,          \* history: ids returned by take / expire / shed
    recorded,         \* history: the deadline insert_impl was given, per stored id
    filled,           \* history: the stored ids inserted through a placeholder
    order             \* history: the stored ids, in the order of their insertion

vars == <<messages, size_bytes, deadline_queue, size_queue, next_message_id,
          placeholders, panicked, inserted, removed, recorded, filled, order>>

\* The MessagePool value held in the variables.
Pool ==
    [messages |-> messages, size_bytes |-> size_bytes,
     deadline_queue |-> deadline_queue, size_queue |-> size_queue,
     next_message_id |-> next_message_id]

\* The variables take the MessagePool value p.
SetPool(p) ==
    /\ messages' = p.messages
    /\ size_bytes' = p.size_bytes
    /\ deadline_queue' = p.deadline_queue
    /\ size_queue' = p.size_queue
    /\ next_message_id' = p.next_message_id

\* ----------------------------------------------------------------- helpers
Entries(q) == {q[i] : i \in DOMAIN q}

\* Variant: the entry is not removed.
MapRemoveKeeps(m, id) == m
\* BTreeMap::remove
MapRemove(m, id) == [k \in (DOMAIN m) \ {id} |-> m[k]]
\* BTreeMap::insert of a vacant key
MapInsert(m, id, v) == [k \in (DOMAIN m) \cup {id} |-> IF k = id THEN v ELSE m[k]]

RECURSIVE SumSizes(_, _)
SumSizes(m, ids) ==
    IF ids = {} THEN 0
    ELSE LET id == CHOOSE x \in ids : TRUE
         IN count_bytes(m[id]) + SumSizes(m, ids \ {id})

\* MessagePool::calculate_size_bytes
calculate_size_bytes(m) == SumSizes(m, DOMAIN m)

\* MessagePool::len
len(p) == Cardinality(DOMAIN p.messages)

\* Variant: equal deadlines are ordered by ascending id.
DeadlineEntryGreaterAscendingIds(a, b) == a[1] < b[1] \/ (a[1] = b[1] /\ a[2] < b[2])
\* Ord of (Reverse<CoarseTime>, MessageId): a > b
DeadlineEntryGreater(a, b) == a[1] < b[1] \/ (a[1] = b[1] /\ a[2] > b[2])
\* Variant: equal sizes are ordered by descending id, the lowest id first out.
SizeEntryGreaterLowestIdFirst(a, b) == a[1] > b[1] \/ (a[1] = b[1] /\ a[2] < b[2])
\* Variant: the smallest message first.
SizeEntryGreaterSmallestFirst(a, b) == a[1] < b[1] \/ (a[1] = b[1] /\ a[2] > b[2])
\* Ord of (usize, MessageId): a > b
SizeEntryGreater(a, b) == a[1] > b[1] \/ (a[1] = b[1] /\ a[2] > b[2])

\* Variant: among the entries with the earliest deadline, the first one pushed.
PeekDeadlineFirstPushed(q) ==
    LET i == CHOOSE j \in DOMAIN q :
                 /\ \A k \in DOMAIN q : q[j][1] <= q[k][1]
                 /\ \A k \in 1..(j - 1) : q[k][1] # q[j][1]
    IN q[i]
\* BinaryHeap::peek on deadline_queue (the queue is non-empty)
PeekDeadline(q) ==
    CHOOSE e \in Entries(q) : \A f \in Entries(q) : f = e \/ DeadlineEntryGreater(e, f)
\* BinaryHeap::peek on size_queue (the queue is non-empty)
PeekSize(q) ==
    CHOOSE e \in Entries(q) : \A f \in Entries(q) : f = e \/ SizeEntryGreater(e, f)

\* BinaryHeap::pop: one occurrence of the greatest entry e leaves the heap
RemoveEntry(q, e) ==
    LET i == CHOOSE j \in DOMAIN q : q[j] = e /\ \A k \in 1..(j - 1) : q[k] # e
    IN SubSeq(q, 1, i - 1) \o SubSeq(q, i + 1, Len(q))

\* Variant: the queue is cleared.
RetainNothing(q, m) == << >>
\* BinaryHeap::retain(|&(_, id)| self.messages.contains_key(&id))
Retain(q, m) == SelectSeq(q, LAMBDA e : e[2] \in DOMAIN m)

\* Variant: a threshold of twice the number of stored messages, without the 2.
TrimQueueNoSlack(q, m) ==
    IF Len(q) > 2 * Cardinality(DOMAIN m) THEN Retain(q, m) ELSE q
\* Variant: the queue is never pruned.
TrimQueueNever(q, m) == q
\* maybe_trim_queues: the length test and the retain, for either queue
TrimQueue(q, m) ==
    IF Len(q) > 2 * Cardinality(DOMAIN m) + 2 THEN Retain(q, m) ELSE q

\* MessagePool::maybe_trim_queues
maybe_trim_queues(p) ==
    [p EXCEPT !.deadline_queue = TrimQueue(p.deadline_queue, p.messages),
              !.size_queue = TrimQueue(p.size_queue, p.messages)]

\* -------------------------------------------------------------------- Init
\* MessagePool::default
Init ==
    /\ messages = <<>>
    /\ size_bytes = 0
    /\ deadline_queue = <<>>
    /\ size_queue = <<>>
    /\ next_message_id = 0
    /\ placeholders = {}
    /\ panicked = FALSE
    /\ inserted = {}
    /\ removed = {}
    /\ recorded = <<>>
    /\ filled = {}
    /\ order = <<>>

\* --------------------------------------------------------------- insertion
\* Variant: a counter one bit wide.
IdAfterWrapping(id) == (id + 1) % 2
\* Variant: the counter is not advanced.
IdAfterStuck(id) == id
\* MessagePool::next_message_id: the counter after handing out id
IdAfter(id) == id + 1

\* Variant: the deadline is pushed even when it is NO_DEADLINE.
PushDeadlineAlways(dq, deadline, id) == Append(dq, <<deadline, id>>)
\* Variant: only best-effort requests are pushed onto the load shedding queue.
PushSizeRequestsOnly(sq, msg, id) ==
    IF is_best_effort(msg) /\ msg.kind = "Request"
    THEN Append(sq, <<count_bytes(msg), id>>) ELSE sq
\* Variant: every message is pushed onto the load shedding queue.
PushSizeAlways(sq, msg, id) == Append(sq, <<count_bytes(msg), id>>)
\* insert_impl: push onto the deadline queue iff a deadline was provided
PushDeadline(dq, deadline, id) ==
    IF deadline # NO_DEADLINE THEN Append(dq, <<deadline, id>>) ELSE dq
\* insert_impl: push onto the load shedding queue iff the message is best-effort
PushSize(sq, msg, id) ==
    IF is_best_effort(msg) THEN Append(sq, <<count_bytes(msg), id>>) ELSE sq

\* Variant: the insertion first prunes the stale entries of both queues.
insert_impl_pruning(p, msg, deadline) ==
    LET id == p.next_message_id
    IN IF id \in DOMAIN p.messages
       THEN [pool |-> [p EXCEPT !.next_message_id = IdAfter(id)], id |-> id, panic |-> TRUE]
       ELSE [pool |-> [messages |-> MapInsert(p.messages, id, msg),
                       size_bytes |-> p.size_bytes + count_bytes(msg),
                       deadline_queue |->
                           PushDeadline(Retain(p.deadline_queue, p.messages), deadline, id),
                       size_queue |-> PushSize(Retain(p.size_queue, p.messages), msg, id),
                       next_message_id |-> IdAfter(id)],
             id |-> id, panic |-> FALSE]

\* MessagePool::insert_impl (with MessagePool::next_message_id): the pool after
\* the call, the id returned, and whether the assert! on the store failed.
insert_impl(p, msg, deadline) ==
    LET id == p.next_message_id
    IN IF id \in DOMAIN p.messages
       THEN [pool |-> [p EXCEPT !.next_message_id = IdAfter(id)], id |-> id, panic |-> TRUE]
       ELSE [pool |-> [messages |-> MapInsert(p.messages, id, msg),
                       size_bytes |-> p.size_bytes + count_bytes(msg),
                       deadline_queue |-> PushDeadline(p.deadline_queue, deadline, id),
                       size_queue |-> PushSize(p.size_queue, msg, id),
                       next_message_id |-> IdAfter(id)],
             id |-> id, panic |-> FALSE]

\* The step of an insertion entry point whose call to insert_impl, with the
\* given deadline, returned r.
Insert(r, deadline) ==
       /\ SetPool(r.pool)
       /\ panicked' = r.panic
       /\ inserted' = IF r.panic THEN inserted ELSE inserted \cup {r.id}
       /\ recorded' = IF r.panic THEN recorded ELSE MapInsert(recorded, r.id, deadline)
       /\ order' = IF r.panic THEN order ELSE Append(order, r.id)
       /\ UNCHANGED <<placeholders, removed, filled>>

\* Variant: an inbound guaranteed response call request gets the lifetime of
\* an outbound one.
InboundDeadlineLifetime(msg) ==
    IF msg.kind = "Response" THEN NO_DEADLINE
    ELSE IF msg.deadline = NO_DEADLINE THEN CoarseFloor(REQUEST_LIFETIME)
    ELSE msg.deadline

\* Variant: a response keeps its own deadline.
InboundDeadlineOwn(msg) == msg.deadline

\* insert_inbound: the deadline handed to insert_impl
InboundDeadline(msg) ==
    IF msg.kind = "Request" THEN msg.deadline ELSE NO_DEADLINE

\* MessagePool::insert_inbound, as a function of the pool
insert_inbound(p, msg) == insert_impl(p, msg, InboundDeadline(msg))

\* MessagePool::insert_inbound
InsertInbound ==
    /\ ~panicked
    /\ next_message_id < MaxIds
    /\ \E msg \in Message : Insert(insert_inbound(Pool, msg), InboundDeadline(msg))

\* Variant: a guaranteed response call request expires at `now`.
OutboundRequestDeadlineNow(request, now) ==
    IF request.deadline = NO_DEADLINE
    THEN CoarseFloor(now)
    ELSE request.deadline

\* insert_outbound_request: the deadline handed to insert_impl
OutboundRequestDeadline(request, now) ==
    IF request.deadline = NO_DEADLINE
    THEN CoarseFloor(now + REQUEST_LIFETIME)
    ELSE request.deadline

\* MessagePool::insert_outbound_request, as a function of the pool
insert_outbound_request(p, request, now) ==
    insert_impl(p, request, OutboundRequestDeadline(request, now))

\* MessagePool::insert_outbound_request
InsertOutboundRequest ==
    /\ ~panicked
    /\ next_message_id < MaxIds
    /\ \E request \in Message, now \in Times :
          /\ request.kind = "Request"
          /\ Insert(insert_outbound_request(Pool, request, now),
                    OutboundRequestDeadline(request, now))

\* Variant: an outbound response is given no deadline, as an inbound one.
insert_outbound_response_never_expiring(p, response) ==
    insert_impl(p, response, NO_DEADLINE)

\* MessagePool::insert_outbound_response, as a function of the pool
insert_outbound_response(p, response) == insert_impl(p, response, response.deadline)

\* MessagePool::insert_outbound_response
InsertOutboundResponse ==
    /\ ~panicked
    /\ next_message_id < MaxIds
    /\ \E response \in Message :
          /\ response.kind = "Response"
          /\ Insert(insert_outbound_response(Pool, response), response.deadline)

\* Variant: the reservation hands out the counter without advancing it.
insert_inbound_timeout_response_peeking(p) == [pool |-> p, id |-> p.next_message_id]

\* Variant: the reservation also leaves an entry in the load shedding queue.
insert_inbound_timeout_response_with_entry(p) ==
    [pool |-> [p EXCEPT !.next_message_id = IdAfter(p.next_message_id),
                        !.size_queue = Append(p.size_queue, <<0, p.next_message_id>>)],
     id |-> p.next_message_id]

\* MessagePool::insert_inbound_timeout_response, as a function of the pool: the
\* pool after the call and the id reserved
insert_inbound_timeout_response(p) ==
    [pool |-> [p EXCEPT !.next_message_id = IdAfter(p.next_message_id)],
     id |-> p.next_message_id]

\* MessagePool::insert_inbound_timeout_response
InsertInboundTimeoutResponse ==
    /\ ~panicked
    /\ next_message_id < MaxIds
    /\ LET r == insert_inbound_timeout_response(Pool)
       IN /\ SetPool(r.pool)
          /\ placeholders' = placeholders \cup {r.id}
    /\ UNCHANGED <<panicked, inserted, removed, recorded, filled, order>>

\* Variant: any response is accepted.
IsAnyResponse(msg) == msg.kind = "Response"

\* replace_inbound_timeout_response: "Message must be a best-effort response"
IsBestEffortResponse(msg) == msg.kind = "Response" /\ msg.deadline # NO_DEADLINE

\* Variant: the response is also recorded in the deadline queue.
replace_inbound_timeout_response_with_deadline(p, id, msg) ==
    IF ~IsBestEffortResponse(msg) \/ id \in DOMAIN p.messages
    THEN [pool |-> p, panic |-> TRUE]
    ELSE [pool |-> [p EXCEPT !.messages = MapInsert(p.messages, id, msg),
                             !.size_bytes = p.size_bytes + count_bytes(msg),
                             !.deadline_queue = Append(p.deadline_queue, <<msg.deadline, id>>),
                             !.size_queue = Append(p.size_queue, <<count_bytes(msg), id>>)],
          panic |-> FALSE]

\* MessagePool::replace_inbound_timeout_response: the pool after the call, and
\* whether the panic! or the assert! aborted it.
replace_inbound_timeout_response(p, id, msg) ==
    IF ~IsBestEffortResponse(msg) \/ id \in DOMAIN p.messages
    THEN [pool |-> p, panic |-> TRUE]
    ELSE [pool |-> [p EXCEPT !.messages = MapInsert(p.messages, id, msg),
                             !.size_bytes = p.size_bytes + count_bytes(msg),
                             !.size_queue = Append(p.size_queue, <<count_bytes(msg), id>>)],
          panic |-> FALSE]

\* A caller consumes one of its placeholders with some message.
ReplaceInboundTimeoutResponse ==
    /\ ~panicked
    /\ \E id \in placeholders, msg \in Message :
          LET r == replace_inbound_timeout_response(Pool, id, msg)
          IN /\ SetPool(r.pool)
             /\ panicked' = r.panic
             /\ placeholders' = placeholders \ {id}
             /\ inserted' = IF r.panic THEN inserted ELSE inserted \cup {id}
             /\ recorded' = IF r.panic THEN recorded
                            ELSE MapInsert(recorded, id, NO_DEADLINE)
             /\ filled' = IF r.panic THEN filled ELSE filled \cup {id}
             /\ order' = IF r.panic THEN order ELSE Append(order, id)
             /\ UNCHANGED removed

\* ------------------------------------------------------------------ lookup
\* Variant: the kind of the stored message is not looked at.
get_request_any_kind(p, id) ==
    IF id \in DOMAIN p.messages THEN <<p.messages[id]>> ELSE <<>>

\* MessagePool::get_request: the stored message, as a sequence of at most one
get_request(p, id) ==
    IF id \in DOMAIN p.messages /\ p.messages[id].kind = "Request"
    THEN <<p.messages[id]>> ELSE <<>>

\* MessagePool::get_response
get_response(p, id) ==
    IF id \in DOMAIN p.messages /\ p.messages[id].kind = "Response"
    THEN <<p.messages[id]>> ELSE <<>>

\* MessagePool::get
get(p, ref) ==
    IF ref.kind = "Request" THEN get_request(p, ref.id) ELSE get_response(p, ref.id)

\* ----------------------------------------------------------------- removal
ResultIds(result) == {result[i][1] : i \in DOMAIN result}
\* The recorded deadlines of the ids still stored.
Restrict(f, ids) == [k \in (DOMAIN f) \cap ids |-> f[k]]

\* Variant: the byte total is not decreased.
SizeAfterRemoveNoDecrement(size, msg) == size
\* take / take_by_id: self.size_bytes -= msg.count_bytes()
SizeAfterRemove(size, msg) == size - count_bytes(msg)

\* MessagePool::take_by_id: the pool after the call and the message removed,
\* as a sequence of at most one <<id, message>> pair.
take_by_id(p, id) ==
    IF id \in DOMAIN p.messages
    THEN [pool |-> [p EXCEPT !.messages = MapRemove(p.messages, id),
                             !.size_bytes = SizeAfterRemove(p.size_bytes, p.messages[id])],
          taken |-> << <<id, p.messages[id]>> >>]
    ELSE [pool |-> p, taken |-> <<>>]

\* Variant: the kind of the reference is not compared.
RefMatchesAnyKind(p, ref) == ref.id \in DOMAIN p.messages

\* take: the reference addresses a stored message of its kind
RefMatches(p, ref) == ref.id \in DOMAIN p.messages /\ p.messages[ref.id].kind = ref.kind

\* MessagePool::take
take(p, ref) ==
    IF RefMatches(p, ref)
    THEN LET t == take_by_id(p, ref.id)
         IN [pool |-> maybe_trim_queues(t.pool), taken |-> t.taken]
    ELSE [pool |-> p, taken |-> <<>>]

\* The step of a removal that leaves pool q and returns `result`.
Remove(q, result) ==
    /\ SetPool(q)
    /\ removed' = removed \cup ResultIds(result)
    /\ recorded' = Restrict(recorded, DOMAIN q.messages)
    /\ filled' = filled \cap DOMAIN q.messages
    /\ order' = SelectSeq(order, LAMBDA id : id \in DOMAIN q.messages)
    /\ UNCHANGED <<placeholders, panicked, inserted>>

References == [kind : Kinds, id : 0..(MaxIds - 1)]

\* A caller takes by some reference.
Take ==
    /\ ~panicked
    /\ \E ref \in References :
          LET r == take(Pool, ref) IN Remove(r.pool, r.taken)

\* Variant: a deadline equal to now counts as expired.
ExpiredAtDeadline(deadline, now) == deadline <= now
\* expire_messages: the entry's deadline has expired (`deadline.0 >= now` breaks)
Expired(deadline, now) == deadline < now

\* Variant: a head entry whose deadline equals the floored now counts.
has_expired_deadlines_at_deadline(p, now) ==
    /\ p.deadline_queue # <<>>
    /\ PeekDeadline(p.deadline_queue)[1] <= CoarseFloor(now)

\* Variant: only the entries of stored messages are looked at.
has_expired_deadlines_of_stored(p, now) ==
    \E e \in Entries(p.deadline_queue) :
        e[2] \in DOMAIN p.messages /\ Expired(e[1], CoarseFloor(now))

\* MessagePool::has_expired_deadlines
has_expired_deadlines(p, now) ==
    /\ p.deadline_queue # <<>>
    /\ Expired(PeekDeadline(p.deadline_queue)[1], CoarseFloor(now))

\* Variant: a stale entry is popped and ends the loop.
RECURSIVE ExpireLoopStopAtStale(_, _, _, _)
ExpireLoopStopAtStale(p, now, expired, stale) ==
    IF p.deadline_queue = <<>> \/ ~Expired(PeekDeadline(p.deadline_queue)[1], now)
    THEN [pool |-> p, expired |-> expired, stale |-> stale]
    ELSE LET e == PeekDeadline(p.deadline_queue)
             popped == [p EXCEPT !.deadline_queue = RemoveEntry(p.deadline_queue, e)]
             t == take_by_id(popped, e[2])
         IN IF t.taken = <<>>
            THEN [pool |-> t.pool, expired |-> expired, stale |-> stale + 1]
            ELSE ExpireLoopStopAtStale(t.pool, now, expired \o t.taken, stale)

\* Variant: an `if let` in place of the `while let`: at most one entry is popped.
ExpireLoopOnce(p, now, expired, stale) ==
    IF p.deadline_queue = <<>> \/ ~Expired(PeekDeadline(p.deadline_queue)[1], now)
    THEN [pool |-> p, expired |-> expired, stale |-> stale]
    ELSE LET e == PeekDeadline(p.deadline_queue)
             popped == [p EXCEPT !.deadline_queue = RemoveEntry(p.deadline_queue, e)]
             t == take_by_id(popped, e[2])
         IN [pool |-> t.pool, expired |-> expired \o t.taken,
             stale |-> IF t.taken = <<>> THEN stale + 1 ELSE stale]

\* expire_messages: the while loop, `now` being the floored time; `stale`
\* counts the popped entries whose message was no longer stored.
RECURSIVE ExpireLoop(_, _, _, _)
ExpireLoop(p, now, expired, stale) ==
    IF p.deadline_queue = <<>> \/ ~Expired(PeekDeadline(p.deadline_queue)[1], now)
    THEN [pool |-> p, expired |-> expired, stale |-> stale]
    ELSE LET e == PeekDeadline(p.deadline_queue)
             popped == [p EXCEPT !.deadline_queue = RemoveEntry(p.deadline_queue, e)]
             t == take_by_id(popped, e[2])
         IN ExpireLoop(t.pool, now, expired \o t.taken,
                       IF t.taken = <<>> THEN stale + 1 ELSE stale)

\* Variant: the call ends by pruning both queues, whatever their length.
expire_messages_pruning(p, now) ==
    IF p.deadline_queue = <<>>
    THEN [pool |-> p, expired |-> <<>>, stale |-> 0]
    ELSE LET r == ExpireLoop(p, CoarseFloor(now), <<>>, 0)
         IN [pool |-> [r.pool EXCEPT
                          !.deadline_queue = Retain(r.pool.deadline_queue, r.pool.messages),
                          !.size_queue = Retain(r.pool.size_queue, r.pool.messages)],
             expired |-> r.expired, stale |-> r.stale]

\* MessagePool::expire_messages
expire_messages(p, now) ==
    IF p.deadline_queue = <<>>
    THEN [pool |-> p, expired |-> <<>>, stale |-> 0]
    ELSE LET r == ExpireLoop(p, CoarseFloor(now), <<>>, 0)
         IN [pool |-> maybe_trim_queues(r.pool), expired |-> r.expired, stale |-> r.stale]

\* A caller expires messages at some time.
ExpireMessages ==
    /\ ~panicked
    /\ \E now \in Times :
          LET r == expire_messages(Pool, now) IN Remove(r.pool, r.expired)

\* Variant: an `if let` in place of the `while let`: a stale entry ends the call.
ShedLoopGiveUp(p, stale) ==
    IF p.size_queue = <<>>
    THEN [pool |-> p, shed |-> <<>>, stale |-> stale]
    ELSE LET e == PeekSize(p.size_queue)
             popped == [p EXCEPT !.size_queue = RemoveEntry(p.size_queue, e)]
             t == take_by_id(popped, e[2])
         IN IF t.taken # <<>>
            THEN [pool |-> maybe_trim_queues(t.pool), shed |-> t.taken, stale |-> stale]
            ELSE [pool |-> popped, shed |-> <<>>, stale |-> stale + 1]

\* MessagePool::shed_largest_message; `stale` counts the popped entries whose
\* message was no longer stored.
RECURSIVE ShedLoop(_, _)
ShedLoop(p, stale) ==
    IF p.size_queue = <<>>
    THEN [pool |-> p, shed |-> <<>>, stale |-> stale]
    ELSE LET e == PeekSize(p.size_queue)
             popped == [p EXCEPT !.size_queue = RemoveEntry(p.size_queue, e)]
             t == take_by_id(popped, e[2])
         IN IF t.taken # <<>>
            THEN [pool |-> maybe_trim_queues(t.pool), shed |-> t.taken, stale |-> stale]
            ELSE ShedLoop(popped, stale + 1)

shed_largest_message(p) == ShedLoop(p, 0)

\* A caller sheds the largest message.
ShedLargestMessage ==
    /\ ~panicked
    /\ LET r == shed_largest_message(Pool) IN Remove(r.pool, r.shed)

\* ----------------------------------------------------------- specification
Next ==
    \/ InsertInbound
    \/ InsertOutboundRequest
    \/ InsertOutboundResponse
    \/ InsertInboundTimeoutResponse
    \/ ReplaceInboundTimeoutResponse
    \/ Take
    \/ ExpireMessages
    \/ ShedLargestMessage

Spec == Init /\ [][Next]_vars

\* ------------------------------------------------------------------ claims
\* The deadline recorded for a stored id has expired at the floored time `now`.
RecordedExpired(id, now) ==
    recorded[id] # NO_DEADLINE /\ recorded[id] < now
ExpiredIds(now) == {id \in DOMAIN messages : RecordedExpired(id, now)}
BestEffortIds(p) == {id \in DOMAIN p.messages : is_best_effort(p.messages[id])}
\* Every pair of `result` holds the message that pool p stores under its id.
ReturnsStored(p, result) ==
    \A i \in DOMAIN result :
        result[i][1] \in DOMAIN p.messages /\ result[i][2] = p.messages[result[i][1]]
NoDuplicates(result) ==
    \A i, j \in DOMAIN result : result[i][1] = result[j][1] => i = j

\* C1: in every reachable state the running byte total equals the sum of the
\* byte sizes of the stored messages.
C1_SizeBytesIsSum == size_bytes = calculate_size_bytes(messages)

\* C1 witness: insertions and a removal have happened, and messages of a
\* positive total size remain.
C1_Witness ==
    /\ removed # {}
    /\ len(Pool) >= 2
    /\ size_bytes >= 3

\* C2: len() is the number of ids under which a message was inserted and which
\* no take, expiration or shedding has returned yet.
C2_LenCountsLive == len(Pool) = Cardinality(inserted \ removed)

\* C2 witness: two messages were removed and one remains.
C2_Witness ==
    /\ Cardinality(removed) = 2
    /\ len(Pool) = 1

\* C3: expire_messages(now) returns exactly the stored messages whose recorded
\* deadline is below floor(now), each once and as stored, and removes exactly
\* those from the store.
C3_ExpireReturnsExactlyExpired ==
    \A now \in Times :
        LET r == expire_messages(Pool, now)
        IN /\ ResultIds(r.expired) = ExpiredIds(CoarseFloor(now))
           /\ NoDuplicates(r.expired)
           /\ ReturnsStored(Pool, r.expired)
           /\ DOMAIN r.pool.messages = (DOMAIN messages) \ ExpiredIds(CoarseFloor(now))

\* C3 witness: some call expires a message, skips a stale entry and leaves a
\* message whose deadline has not expired.
C3_Witness ==
    \E now \in Times :
        LET r == expire_messages(Pool, now)
        IN /\ r.expired # <<>>
           /\ r.stale > 0
           /\ \E id \in DOMAIN r.pool.messages : recorded[id] >= CoarseFloor(now)

\* The deadlines recorded for the returned messages never decrease along `result`.
IncreasingDeadlines(result) ==
    \A i, j \in DOMAIN result :
        i < j => recorded[result[i][1]] <= recorded[result[j][1]]

\* C4 as stated: the list returned by expire_messages(now) is in increasing
\* deadline order, equal deadlines in ascending id order.
C4_TiesAscendingIds ==
    \A now \in Times :
        LET e == expire_messages(Pool, now).expired
        IN /\ IncreasingDeadlines(e)
           /\ \A i, j \in DOMAIN e :
                 (i < j /\ recorded[e[i][1]] = recorded[e[j][1]]) => e[i][1] < e[j][1]

\* C4 amended: the list returned by expire_messages(now) is in increasing
\* deadline order, equal deadlines in descending id order.
C4_TiesDescendingIds ==
    \A now \in Times :
        LET e == expire_messages(Pool, now).expired
        IN /\ IncreasingDeadlines(e)
           /\ \A i, j \in DOMAIN e :
                 (i < j /\ recorded[e[i][1]] = recorded[e[j][1]]) => e[i][1] > e[j][1]

\* C4 witness: some call returns three messages, two of them with equal
\* deadlines and one with another deadline.
C4_Witness ==
    \E now \in Times :
        LET e == expire_messages(Pool, now).expired
        IN /\ Len(e) = 3
           /\ \E i, j, k \in DOMAIN e :
                 /\ i # j
                 /\ recorded[e[i][1]] = recorded[e[j][1]]
                 /\ recorded[e[i][1]] # recorded[e[k][1]]

\* The ids stored after expire_messages(now) on the current pool.
StoredAfterExpire(now) == DOMAIN expire_messages(Pool, now).pool.messages

\* C5 as stated: a message with recorded deadline D stays when floor(now) = D - 1
\* and is removed when floor(now) = D.
C5_RemovedAtDeadline ==
    \A id \in DOMAIN messages : \A now \in Times :
        recorded[id] # NO_DEADLINE =>
            /\ CoarseFloor(now) = recorded[id] - 1 => id \in StoredAfterExpire(now)
            /\ CoarseFloor(now) = recorded[id] => id \notin StoredAfterExpire(now)

\* C5 amended: a message with recorded deadline D stays when floor(now) = D - 1
\* and when floor(now) = D, and is removed when floor(now) = D + 1.
C5_RemovedAfterDeadline ==
    \A id \in DOMAIN messages : \A now \in Times :
        recorded[id] # NO_DEADLINE =>
            /\ CoarseFloor(now) = recorded[id] - 1 => id \in StoredAfterExpire(now)
            /\ CoarseFloor(now) = recorded[id] => id \in StoredAfterExpire(now)
            /\ CoarseFloor(now) = recorded[id] + 1 => id \notin StoredAfterExpire(now)

\* C5 witness: a guaranteed response request inserted by insert_outbound_request
\* is stored with its lifetime deadline D, and callers may pass times that floor
\* to D - 1, D and D + 1.
C5_Witness ==
    \E id \in DOMAIN messages :
        /\ messages[id].kind = "Request"
        /\ ~is_best_effort(messages[id])
        /\ recorded[id] # NO_DEADLINE
        /\ \E a, b, c \in Times :
              /\ CoarseFloor(a) = recorded[id] - 1
              /\ CoarseFloor(b) = recorded[id]
              /\ CoarseFloor(c) = recorded[id] + 1
              /\ id \in StoredAfterExpire(a)
              /\ id \in StoredAfterExpire(b)
              /\ id \notin StoredAfterExpire(c)

\* The recorded deadline of a stored id has not expired at the floored time
\* `now`, or the id was inserted without a deadline.
Unexpired(id, now) == recorded[id] = NO_DEADLINE \/ recorded[id] >= now

\* C6: expire_messages(now) leaves every message whose recorded deadline is at
\* least floor(now), and every message inserted without a deadline, in the store
\* with its payload unchanged and retrievable by its reference.
C6_ExpireLeavesUnexpired ==
    \A now \in Times : \A id \in DOMAIN messages :
        LET q == expire_messages(Pool, now).pool
        IN Unexpired(id, CoarseFloor(now)) =>
              /\ id \in DOMAIN q.messages
              /\ q.messages[id] = messages[id]
              /\ get(q, [kind |-> messages[id].kind, id |-> id]) = <<messages[id]>>

\* C6 witness: some call expires a message and leaves both a message whose
\* deadline equals floor(now) and a message inserted without a deadline.
C6_Witness ==
    \E now \in Times :
        LET r == expire_messages(Pool, now)
        IN /\ r.expired # <<>>
           /\ \E id \in DOMAIN r.pool.messages : recorded[id] = CoarseFloor(now)
           /\ \E id \in DOMAIN r.pool.messages : recorded[id] = NO_DEADLINE

\* C7: a second expire_messages(now) right after the first, with the same now,
\* returns the empty list and leaves the store and the byte total unchanged.
C7_SecondExpireEmpty ==
    \A now \in Times :
        LET first == expire_messages(Pool, now)
            second == expire_messages(first.pool, now)
        IN /\ second.expired = <<>>
           /\ second.pool.messages = first.pool.messages
           /\ second.pool.size_bytes = first.pool.size_bytes

\* C7 witness: the first of the two calls returns two messages and leaves one
\* with a deadline in the deadline queue.
C7_Witness ==
    \E now \in Times :
        LET first == expire_messages(Pool, now)
        IN /\ Len(first.expired) = 2
           /\ first.pool.deadline_queue # <<>>
           /\ first.pool.messages # <<>>

\* shed_largest_message called on p until it returns nothing: the returned
\* <<id, message>> pairs in order of return.
RECURSIVE ShedUntilNothing(_)
ShedUntilNothing(p) ==
    LET r == shed_largest_message(p)
    IN IF r.shed = <<>> THEN <<>> ELSE r.shed \o ShedUntilNothing(r.pool)

\* The pool that these calls leave.
RECURSIVE PoolAfterShedding(_)
PoolAfterShedding(p) ==
    LET r == shed_largest_message(p)
    IN IF r.shed = <<>> THEN r.pool ELSE PoolAfterShedding(r.pool)

\* C8: shed_largest_message repeated until it returns nothing returns every
\* best-effort message of the store exactly once, as stored, in non-increasing
\* order of byte size, and leaves the store without them.
C8_ShedAllBestEffortBySize ==
    LET out == ShedUntilNothing(Pool)
    IN /\ ResultIds(out) = BestEffortIds(Pool)
       /\ DOMAIN PoolAfterShedding(Pool).messages = (DOMAIN messages) \ BestEffortIds(Pool)
       /\ NoDuplicates(out)
       /\ ReturnsStored(Pool, out)
       /\ \A i, j \in DOMAIN out : i < j => count_bytes(out[i][2]) >= count_bytes(out[j][2])

\* C8 witness: three best-effort messages are stored, the one inserted first
\* being smaller than the one inserted last.
C8_Witness ==
    /\ Cardinality(BestEffortIds(Pool)) = 3
    /\ \E i, j \in DOMAIN messages :
          i < j /\ count_bytes(messages[i]) < count_bytes(messages[j])
    /\ Len(ShedUntilNothing(Pool)) = 3

\* C9: shed_largest_message returns no guaranteed response message and leaves
\* every stored guaranteed response message in the store, unchanged.
C9_ShedSparesGuaranteed ==
    LET r == shed_largest_message(Pool)
    IN /\ \A i \in DOMAIN r.shed : is_best_effort(r.shed[i][2])
       /\ \A id \in DOMAIN messages :
             ~is_best_effort(messages[id]) =>
                 id \in DOMAIN r.pool.messages /\ r.pool.messages[id] = messages[id]

\* C9 witness: a guaranteed response request with a lifetime deadline is the
\* largest stored message, and the call sheds a smaller best-effort message.
C9_Witness ==
    LET r == shed_largest_message(Pool)
    IN /\ r.shed # <<>>
       /\ \E id \in DOMAIN messages :
             /\ messages[id].kind = "Request"
             /\ ~is_best_effort(messages[id])
             /\ recorded[id] # NO_DEADLINE
             /\ count_bytes(messages[id]) > count_bytes(r.shed[1][2])

\* C10: shed_largest_message returns nothing iff the store holds no best-effort
\* message.
C10_ShedNothingIffNoBestEffort ==
    (shed_largest_message(Pool).shed = <<>>) <=> (BestEffortIds(Pool) = {})

\* C10 witness: the call pops two stale entries before it returns a message.
C10_Witness ==
    LET r == shed_largest_message(Pool)
    IN r.stale = 2 /\ r.shed # <<>>

RequestRef(id) == [kind |-> "Request", id |-> id]
ResponseRef(id) == [kind |-> "Response", id |-> id]
\* No lookup finds anything under id in pool p.
NothingUnder(p, id) ==
    /\ get_request(p, id) = <<>>
    /\ get_response(p, id) = <<>>
    /\ get(p, RequestRef(id)) = <<>>
    /\ get(p, ResponseRef(id)) = <<>>

\* C11: for a stored Request, get_request(id) and get(Request(id)) return it and
\* get_response(id) and get(Response(id)) return nothing; for a stored Response
\* the reverse; for an id that is not stored all four return nothing.
C11_LookupByKind ==
    \A id \in 0..(MaxIds - 1) :
        /\ id \in inserted \ removed =>
              /\ id \in DOMAIN messages
              /\ messages[id].kind = "Request" =>
                    /\ get_request(Pool, id) = <<messages[id]>>
                    /\ get(Pool, RequestRef(id)) = <<messages[id]>>
                    /\ get_response(Pool, id) = <<>>
                    /\ get(Pool, ResponseRef(id)) = <<>>
              /\ messages[id].kind = "Response" =>
                    /\ get_response(Pool, id) = <<messages[id]>>
                    /\ get(Pool, ResponseRef(id)) = <<messages[id]>>
                    /\ get_request(Pool, id) = <<>>
                    /\ get(Pool, RequestRef(id)) = <<>>
              /\ messages[id].kind \in Kinds
        /\ id \notin inserted \ removed => NothingUnder(Pool, id)

\* C11 witness: a Request and a Response are stored, and a third id has been
\* removed.
C11_Witness ==
    /\ \E id \in DOMAIN messages : messages[id].kind = "Request"
    /\ \E id \in DOMAIN messages : messages[id].kind = "Response"
    /\ removed # {}

\* The reference misses: its id was never inserted, or was removed, or the
\* stored message is of the other kind.
Misses(ref) ==
    \/ ref.id \notin inserted
    \/ ref.id \in removed
    \/ (ref.id \in DOMAIN messages /\ messages[ref.id].kind # ref.kind)

\* C12: take by a reference that misses returns nothing and leaves the store,
\* the byte total, both queues and the id counter as they were.
C12_TakeMissIsNoOp ==
    \A ref \in References :
        Misses(ref) =>
            /\ take(Pool, ref).taken = <<>>
            /\ take(Pool, ref).pool = Pool

\* C12 witness: a reference of the other kind to a stored message, a reference
\* to a removed id and a reference to an id never inserted all exist, while the
\* queues hold entries.
C12_Witness ==
    /\ \E ref \in References :
          ref.id \in DOMAIN messages /\ messages[ref.id].kind # ref.kind
    /\ removed # {}
    /\ \E id \in 0..(MaxIds - 1) : id \notin inserted
    /\ deadline_queue # <<>>
    /\ size_queue # <<>>

\* C13: take by a reference to a stored message of that kind returns the
\* message, removes it from the store (len drops by one, lookups of the id find
\* nothing), lowers the byte total by the message's size and leaves every other
\* stored message as it was.
C13_TakeHitRemoves ==
    \A ref \in References :
        (ref.id \in DOMAIN messages /\ messages[ref.id].kind = ref.kind) =>
            LET r == take(Pool, ref)
            IN /\ r.taken = << <<ref.id, messages[ref.id]>> >>
               /\ len(r.pool) = len(Pool) - 1
               /\ NothingUnder(r.pool, ref.id)
               /\ r.pool.size_bytes = size_bytes - count_bytes(messages[ref.id])
               /\ \A id \in (DOMAIN messages) \ {ref.id} :
                     id \in DOMAIN r.pool.messages /\ r.pool.messages[id] = messages[id]
               /\ DOMAIN r.pool.messages \subseteq DOMAIN messages

\* C13 witness: three messages are stored, so a take leaves two others.
C13_Witness ==
    /\ len(Pool) = 3
    /\ \E ref \in References :
          /\ take(Pool, ref).taken # <<>>
          /\ len(take(Pool, ref).pool) = 2

\* The id is stored in p as a best-effort response that lookups by Response find,
\* take by Response returns, repeated shedding returns and no expire_messages
\* returns.
LiveShedOnlyResponse(p, id) ==
    /\ id \in DOMAIN p.messages
    /\ IsBestEffortResponse(p.messages[id])
    /\ get_response(p, id) = <<p.messages[id]>>
    /\ get(p, ResponseRef(id)) = <<p.messages[id]>>
    /\ get_request(p, id) = <<>>
    /\ take(p, ResponseRef(id)).taken = << <<id, p.messages[id]>> >>
    /\ id \in ResultIds(ShedUntilNothing(p))
    /\ \A now \in Times : id \notin ResultIds(expire_messages(p, now).expired)

\* C14: fulfilling a placeholder with a best-effort response stores it under the
\* placeholder's id; store, byte total and both queues are then as insert_inbound
\* of that response under that id would leave them; the message can be looked up
\* and taken as a Response and shed, and no expire_messages returns it, right
\* after the fulfilment and for as long as it is stored.
C14_FilledPlaceholder ==
    /\ \A id \in placeholders : \A msg \in Message :
          IsBestEffortResponse(msg) =>
              LET r == replace_inbound_timeout_response(Pool, id, msg)
                  direct == insert_impl([Pool EXCEPT !.next_message_id = id],
                                        msg, InboundDeadline(msg))
              IN /\ ~r.panic
                 /\ r.pool.messages[id] = msg
                 /\ r.pool.messages = direct.pool.messages
                 /\ r.pool.size_bytes = direct.pool.size_bytes
                 /\ r.pool.deadline_queue = direct.pool.deadline_queue
                 /\ r.pool.size_queue = direct.pool.size_queue
                 /\ LiveShedOnlyResponse(r.pool, id)
    /\ \A id \in filled : LiveShedOnlyResponse(Pool, id)

\* C14 witness: a message inserted through a placeholder is stored while some
\* expire_messages call, at a time past that message's own deadline, returns
\* another message; and a placeholder is still to be fulfilled.
C14_Witness ==
    /\ placeholders # {}
    /\ \E id \in filled : \E now \in Times :
          /\ messages[id].deadline < CoarseFloor(now)
          /\ expire_messages(Pool, now).expired # <<>>

\* Ids that were allocated and are neither stored history nor outstanding
\* placeholders: the placeholders whose fulfilment was aborted.
Aborted == {id \in 0..(next_message_id - 1) : id \notin inserted \cup placeholders}

\* Some entry of the queue carries the id.
HasEntry(q, id) == \E e \in Entries(q) : e[2] = id

\* C15: fulfilling a placeholder with a Request, or with a Response whose
\* deadline is NO_DEADLINE, panics and leaves store, byte total and both queues
\* as they were; after the panic nothing is stored and no queue entry exists
\* under that id.
C15_BadFulfilmentPanics ==
    /\ \A id \in placeholders : \A msg \in Message :
          (msg.kind = "Request" \/ msg.deadline = NO_DEADLINE) =>
              LET r == replace_inbound_timeout_response(Pool, id, msg)
              IN /\ r.panic
                 /\ r.pool.messages = messages
                 /\ r.pool.size_bytes = size_bytes
                 /\ r.pool.deadline_queue = deadline_queue
                 /\ r.pool.size_queue = size_queue
    /\ \A id \in Aborted :
          /\ panicked
          /\ id \notin DOMAIN messages
          /\ ~HasEntry(deadline_queue, id)
          /\ ~HasEntry(size_queue, id)
    /\ size_bytes = calculate_size_bytes(messages)

\* C15 witness: a fulfilment has panicked in a pool that holds messages and
\* entries in both queues.
C15_Witness ==
    /\ panicked
    /\ Aborted # {}
    /\ messages # << >>
    /\ deadline_queue # << >>
    /\ size_queue # << >>

\* The operation leaves the counter of the pool alone.
KeepsCounter(q) == q.next_message_id = next_message_id

\* The allocation returned the current counter and advanced it by one.
Allocates(r) == r.id = next_message_id /\ r.pool.next_message_id = next_message_id + 1

\* C16: the counter starts at zero; insert_inbound, insert_outbound_request,
\* insert_outbound_response and insert_inbound_timeout_response each return the
\* current counter and advance it by one; take, expire_messages,
\* shed_largest_message and replace_inbound_timeout_response leave it alone;
\* every id handed out so far is below the counter, so the next id is new; and
\* neither the assert! of insert_impl nor that of a placeholder fulfilment fails.
C16_IdsNeverReused ==
    /\ next_message_id = Cardinality(inserted \cup placeholders \cup Aborted)
    /\ inserted \cap placeholders = {}
    /\ \A id \in inserted \cup placeholders \cup DOMAIN messages : id < next_message_id
    /\ \A e \in Entries(deadline_queue) \cup Entries(size_queue) : e[2] < next_message_id
    /\ Len(order) = Cardinality(DOMAIN messages)
    /\ panicked => Aborted # {}
    /\ Allocates(insert_inbound_timeout_response(Pool))
    /\ \A msg \in Message :
          /\ Allocates(insert_inbound(Pool, msg)) /\ ~insert_inbound(Pool, msg).panic
          /\ msg.kind = "Response" =>
                /\ Allocates(insert_outbound_response(Pool, msg))
                /\ ~insert_outbound_response(Pool, msg).panic
          /\ msg.kind = "Request" => \A now \in Times :
                /\ Allocates(insert_outbound_request(Pool, msg, now))
                /\ ~insert_outbound_request(Pool, msg, now).panic
          /\ \A id \in placeholders :
                /\ KeepsCounter(replace_inbound_timeout_response(Pool, id, msg).pool)
                /\ id \notin DOMAIN messages
    /\ \A ref \in References : KeepsCounter(take(Pool, ref).pool)
    /\ \A now \in Times : KeepsCounter(expire_messages(Pool, now).pool)
    /\ KeepsCounter(shed_largest_message(Pool).pool)

\* C16 witness: every id of the bound has been handed out, by insertions and by
\* a reservation, and an id whose message was removed has not come back.
C16_Witness ==
    /\ next_message_id = MaxIds
    /\ placeholders # {}
    /\ inserted \cap removed # {}
    /\ inserted \ removed # {}

\* The place of a stored id in the order of insertions into the store.
InsertedAt(id) == CHOOSE k \in 1..Len(order) : order[k] = id

\* Of two stored ids, the first was inserted into the store before the second.
InsertedEarlier(i, j) == InsertedAt(i) < InsertedAt(j)

\* Every stored id has exactly one place in the order of insertions.
OrderCoversStore ==
    /\ {order[k] : k \in 1..Len(order)} = DOMAIN messages
    /\ Len(order) = Cardinality(DOMAIN messages)

\* C17 as stated: of any two stored messages the one with the smaller id was
\* inserted into the store earlier, placeholder fulfilments included.
C17_SmallerIdInsertedEarlier ==
    /\ OrderCoversStore
    /\ \A i, j \in DOMAIN messages : i < j => InsertedEarlier(i, j)

\* C17 amended: of any two stored messages the one with the smaller id was
\* inserted into the store earlier, unless the one with the smaller id was
\* inserted by a placeholder fulfilment.
C17_SmallerIdInsertedEarlierUnlessFilled ==
    /\ OrderCoversStore
    /\ \A i, j \in DOMAIN messages :
          (i < j /\ i \notin filled) => InsertedEarlier(i, j)

\* C17 witness: a message inserted by a placeholder fulfilment is stored after
\* a message with a larger id, next to a directly inserted pair in id order.
C17_Witness ==
    /\ \E i, j \in DOMAIN messages :
          i < j /\ i \in filled /\ InsertedEarlier(j, i)
    /\ \E i, j \in DOMAIN messages :
          i < j /\ i \notin filled /\ InsertedEarlier(i, j)

\* Pool p stores a message under id, and its load shedding queue holds an entry
\* for the id (one entry, with the size of the message) iff the message is
\* best-effort.
SizeEntryIffBestEffort(p, id) ==
    /\ id \in DOMAIN p.messages
    /\ HasEntry(p.size_queue, id) <=> is_best_effort(p.messages[id])
    /\ \A i \in DOMAIN p.size_queue :
          p.size_queue[i][2] = id =>
              /\ p.size_queue[i][1] = count_bytes(p.messages[id])
              /\ \A k \in DOMAIN p.size_queue : p.size_queue[k][2] = id => k = i

\* C18: a stored message has an entry in the load shedding queue iff it is
\* best-effort: in every state, and right after insert_inbound,
\* insert_outbound_request, insert_outbound_response and
\* replace_inbound_timeout_response, with or without a deadline queue entry.
C18_SizeEntryIffBestEffort ==
    /\ \A id \in DOMAIN messages : SizeEntryIffBestEffort(Pool, id)
    /\ \A msg \in Message :
          /\ SizeEntryIffBestEffort(insert_inbound(Pool, msg).pool, next_message_id)
          /\ msg.kind = "Response" =>
                SizeEntryIffBestEffort(insert_outbound_response(Pool, msg).pool,
                                       next_message_id)
          /\ msg.kind = "Request" => \A now \in Times :
                SizeEntryIffBestEffort(insert_outbound_request(Pool, msg, now).pool,
                                       next_message_id)
          /\ IsBestEffortResponse(msg) => \A id \in placeholders :
                SizeEntryIffBestEffort(
                    replace_inbound_timeout_response(Pool, id, msg).pool, id)

\* C18 witness: the store holds a best-effort message without a deadline queue
\* entry, a best-effort message with one, and a guaranteed message with one.
C18_Witness ==
    \E i, j, k \in DOMAIN messages :
        /\ is_best_effort(messages[i]) /\ ~HasEntry(deadline_queue, i)
        /\ is_best_effort(messages[j]) /\ HasEntry(deadline_queue, j)
        /\ ~is_best_effort(messages[k]) /\ HasEntry(deadline_queue, k)

\* No expire_messages call on pool p, at any time, returns the id.
NeverExpires(p, id) ==
    \A now \in Times : id \notin ResultIds(expire_messages(p, now).expired)

\* C19: insert_inbound pushes one deadline queue entry, the request's own
\* deadline with the new id, iff the message is a best-effort request, and
\* otherwise leaves the deadline queue alone; an inbound response, best-effort
\* or guaranteed, gets no deadline queue entry and no expire_messages returns
\* it, right after the insertion and for as long as it is stored.
C19_InboundDeadlineEntry ==
    /\ \A msg \in Message :
          LET r == insert_inbound(Pool, msg)
          IN /\ r.pool.deadline_queue =
                    IF msg.kind = "Request" /\ is_best_effort(msg)
                    THEN Append(deadline_queue, <<msg.deadline, r.id>>)
                    ELSE deadline_queue
             /\ msg.kind = "Response" =>
                    /\ r.pool.messages[r.id] = msg
                    /\ ~HasEntry(r.pool.deadline_queue, r.id)
                    /\ NeverExpires(r.pool, r.id)
    /\ \A id \in DOMAIN messages :
          recorded[id] = NO_DEADLINE =>
              /\ ~HasEntry(deadline_queue, id)
              /\ NeverExpires(Pool, id)

\* C19 witness: a directly inserted best-effort response is stored without a
\* deadline while an expire_messages call, at a time past that response's own
\* deadline, returns a best-effort request.
C19_Witness ==
    \E i, j \in DOMAIN messages : \E now \in Times :
        /\ messages[i].kind = "Response" /\ is_best_effort(messages[i])
        /\ i \notin filled
        /\ recorded[i] = NO_DEADLINE
        /\ messages[i].deadline < CoarseFloor(now)
        /\ messages[j].kind = "Request" /\ is_best_effort(messages[j])
        /\ j \in ResultIds(expire_messages(Pool, now).expired)

\* The deadline of an outbound request inserted at `now`: its own if it is
\* best-effort, else floor(now) plus the lifetime in units of CoarseTime.
OwnDeadlineOrLifetime(request, now) ==
    IF is_best_effort(request)
    THEN request.deadline
    ELSE CoarseFloor(now) + CoarseFloor(REQUEST_LIFETIME)

\* C20: insert_outbound_request always pushes one deadline queue entry for the
\* new id: a best-effort request's own deadline, a guaranteed response call
\* request's floor(now) plus the lifetime; it pushes a load shedding queue entry
\* iff the request is best-effort; and a stored guaranteed request that was
\* given a deadline keeps its deadline queue entry and has no load shedding
\* queue entry.
C20_OutboundRequestEntries ==
    /\ \A request \in Message : \A now \in Times :
          request.kind = "Request" =>
              LET r == insert_outbound_request(Pool, request, now)
              IN /\ ~r.panic
                 /\ r.pool.messages[r.id] = request
                 /\ OwnDeadlineOrLifetime(request, now) # NO_DEADLINE
                 /\ r.pool.deadline_queue =
                        Append(deadline_queue,
                               <<OwnDeadlineOrLifetime(request, now), r.id>>)
                 /\ r.pool.size_queue =
                        IF is_best_effort(request)
                        THEN Append(size_queue, <<count_bytes(request), r.id>>)
                        ELSE size_queue
    /\ \A id \in DOMAIN messages :
          (~is_best_effort(messages[id]) /\ recorded[id] # NO_DEADLINE) =>
              /\ messages[id].kind = "Request"
              /\ \E now \in Times : recorded[id] = OwnDeadlineOrLifetime(messages[id], now)
              /\ \E i \in DOMAIN deadline_queue : deadline_queue[i] = <<recorded[id], id>>
              /\ ~HasEntry(size_queue, id)

\* C20 witness: the store holds a guaranteed response call request inserted at
\* a `now` of 4 ticks (floor 2), whose deadline queue entry reads 3, next to a
\* best-effort request that has its own deadline in the deadline queue and an
\* entry in the load shedding queue.
C20_Witness ==
    \E i, j \in DOMAIN messages :
        /\ messages[i].kind = "Request" /\ ~is_best_effort(messages[i])
        /\ recorded[i] = OwnDeadlineOrLifetime(messages[i], 4)
        /\ \E e \in Entries(deadline_queue) : e = <<3, i>>
        /\ messages[j].kind = "Request" /\ is_best_effort(messages[j])
        /\ \E e \in Entries(deadline_queue) : e = <<messages[j].deadline, j>>
        /\ HasEntry(size_queue, j)

\* The queue holds the entry e.
Holds(q, e) == \E i \in DOMAIN q : q[i] = e

\* C21: insert_outbound_response of a best-effort response pushes one deadline
\* queue entry, with the response's own deadline, and one load shedding queue
\* entry; of a guaranteed response it leaves both queues alone; and a stored
\* response that was given a deadline holds both entries while it is stored.
C21_OutboundResponseEntries ==
    /\ \A response \in Message :
          response.kind = "Response" =>
              LET r == insert_outbound_response(Pool, response)
              IN /\ ~r.panic
                 /\ r.pool.messages[r.id] = response
                 /\ r.pool.deadline_queue =
                        IF is_best_effort(response)
                        THEN Append(deadline_queue, <<response.deadline, r.id>>)
                        ELSE deadline_queue
                 /\ r.pool.size_queue =
                        IF is_best_effort(response)
                        THEN Append(size_queue, <<count_bytes(response), r.id>>)
                        ELSE size_queue
    /\ \A id \in DOMAIN messages :
          (messages[id].kind = "Response" /\ recorded[id] # NO_DEADLINE) =>
              /\ is_best_effort(messages[id])
              /\ recorded[id] = messages[id].deadline
              /\ Holds(deadline_queue, <<messages[id].deadline, id>>)
              /\ Holds(size_queue, <<count_bytes(messages[id]), id>>)
    /\ \A id \in DOMAIN messages :
          (messages[id].kind = "Response" /\ ~is_best_effort(messages[id])) =>
              ~HasEntry(deadline_queue, id) /\ ~HasEntry(size_queue, id)

\* C21 witness: the store holds an outbound best-effort response with its own
\* deadline in the deadline queue and an entry in the load shedding queue, next
\* to a guaranteed response with no entry in either queue, while both queues
\* hold entries of other ids.
C21_Witness ==
    \E i, j \in DOMAIN messages :
        /\ messages[i].kind = "Response" /\ recorded[i] # NO_DEADLINE
        /\ Holds(deadline_queue, <<messages[i].deadline, i>>)
        /\ Holds(size_queue, <<count_bytes(messages[i]), i>>)
        /\ messages[j].kind = "Response" /\ ~is_best_effort(messages[j])
        /\ ~HasEntry(deadline_queue, j) /\ ~HasEntry(size_queue, j)
        /\ Len(deadline_queue) > 1 /\ Len(size_queue) > 1

\* The entries of queue q whose id pool p no longer stores.
StaleEntries(p, q) == SelectSeq(q, LAMBDA e : e[2] \notin DOMAIN p.messages)

\* The queue is no longer than twice the number of stored messages plus two.
WithinTrimBound(p, q) == Len(q) <= 2 * len(p) + 2

\* C22: in every reachable state the deadline queue and the load shedding queue
\* are each at most 2 * len() + 2 long, and so is the number of stale entries
\* of each.
C22_QueuesWithinBound ==
    /\ WithinTrimBound(Pool, deadline_queue)
    /\ WithinTrimBound(Pool, size_queue)
    /\ Len(StaleEntries(Pool, deadline_queue)) <= 2 * len(Pool) + 2
    /\ Len(StaleEntries(Pool, size_queue)) <= 2 * len(Pool) + 2

\* C22 witness: after removals the deadline queue is exactly 2 * len() + 2
\* long, all of it stale, and the load shedding queue holds stale entries too.
C22_Witness ==
    /\ removed # {}
    /\ Len(deadline_queue) = 2 * len(Pool) + 2
    /\ StaleEntries(Pool, deadline_queue) = deadline_queue
    /\ StaleEntries(Pool, size_queue) # << >>

\* The earliest deadline among the entries, stale or not, of a non-empty
\* deadline queue.
EarliestDeadline(q) ==
    CHOOSE d \in {e[1] : e \in Entries(q)} : \A e \in Entries(q) : d <= e[1]

\* C23: has_expired_deadlines(now) is true iff the deadline queue is non-empty
\* and the earliest deadline among its entries, stale or not, is strictly less
\* than floor(now).
C23_HasExpiredDeadlines ==
    \A now \in Times :
        has_expired_deadlines(Pool, now) <=>
            /\ deadline_queue # << >>
            /\ EarliestDeadline(deadline_queue) < CoarseFloor(now)

\* C23 witness: has_expired_deadlines is true at some time on the strength of a
\* stale entry alone, false at some time although the queue is non-empty, and
\* false at the time equal to the earliest deadline.
C23_Witness ==
    /\ messages # << >>
    /\ \E now \in Times :
          /\ has_expired_deadlines(Pool, now)
          /\ \A e \in Entries(deadline_queue) :
                e[1] < CoarseFloor(now) => e[2] \notin DOMAIN messages
    /\ \E now \in Times :
          /\ CoarseFloor(now) = EarliestDeadline(deadline_queue)
          /\ ~has_expired_deadlines(Pool, now)

\* Some message that pool p stores was given a deadline before the floored now.
StoredDeadlineExpired(p, now) ==
    \E id \in DOMAIN p.messages :
        recorded[id] # NO_DEADLINE /\ recorded[id] < CoarseFloor(now)

\* C24 as stated: has_expired_deadlines(now) is true iff some stored message
\* has a recorded deadline before floor(now), and whenever it is true
\* expire_messages(now) returns a non-empty list.
C24_TrueIffStoredMessageExpired ==
    \A now \in Times :
        /\ has_expired_deadlines(Pool, now) <=> StoredDeadlineExpired(Pool, now)
        /\ has_expired_deadlines(Pool, now) => expire_messages(Pool, now).expired # << >>

\* C24, the half that holds: has_expired_deadlines(now) is true whenever some
\* stored message has a recorded deadline before floor(now), and then, and only
\* then, expire_messages(now) returns a non-empty list.
C24_TrueWheneverStoredMessageExpired ==
    \A now \in Times :
        /\ StoredDeadlineExpired(Pool, now) => has_expired_deadlines(Pool, now)
        /\ StoredDeadlineExpired(Pool, now) <=> expire_messages(Pool, now).expired # << >>

\* C24, the failing case: the store is empty, yet has_expired_deadlines is true
\* and expire_messages returns nothing.
C24_FalsePositive ==
    /\ messages = << >>
    /\ \E now \in Times :
          /\ has_expired_deadlines(Pool, now)
          /\ expire_messages(Pool, now).expired = << >>

\* The id was never stored, is stored, or was stored and has been returned by
\* take, expire_messages or shed_largest_message.
Absent(id) == id \notin inserted
Present(id) == id \in DOMAIN messages
Removed(id) == id \in removed

\* No take, expire_messages or shed_largest_message on the pool returns the id,
\* and none of them leaves it in the store.
NeverReturnedAgain(id) ==
    /\ \A ref \in References :
          /\ id \notin ResultIds(take(Pool, ref).taken)
          /\ id \notin DOMAIN take(Pool, ref).pool.messages
    /\ \A now \in Times :
          /\ id \notin ResultIds(expire_messages(Pool, now).expired)
          /\ id \notin DOMAIN expire_messages(Pool, now).pool.messages
    /\ id \notin ResultIds(ShedUntilNothing(Pool))
    /\ id \notin DOMAIN shed_largest_message(Pool).pool.messages

\* One step of the pool, seen from every id: a stored message stays as it is or
\* leaves the store by being returned, for the first time; an id enters the
\* store only if it was never stored; a returned id stays returned and absent
\* from the store.
LifecycleStep ==
    /\ removed \subseteq removed'
    /\ \A id \in removed : id \notin DOMAIN messages'
    /\ \A id \in DOMAIN messages :
          \/ id \in DOMAIN messages' /\ messages'[id] = messages[id] /\ id \notin removed'
          \/ id \notin DOMAIN messages' /\ id \in removed' \ removed
    /\ \A id \in (DOMAIN messages') \ DOMAIN messages : Absent(id)
    /\ \A id \in removed' \ removed : Present(id)

\* C25: every id is in exactly one of Absent, Present and Removed; steps move
\* it only from Absent to Present and from Present to Removed; and an id that
\* take, expire_messages or shed_largest_message has returned is never returned
\* again by any of them and is never stored again.
C25_DestroyedExactlyOnce ==
    /\ [](/\ \A id \in 0..(MaxIds - 1) :
                /\ Absent(id) \/ Present(id) \/ Removed(id)
                /\ ~(Absent(id) /\ Present(id))
                /\ ~(Absent(id) /\ Removed(id))
                /\ ~(Present(id) /\ Removed(id))
          /\ \A id \in removed : NeverReturnedAgain(id)
          /\ \A msg \in Message, deadline \in Deadlines \cup {NO_DEADLINE} :
                ~Removed(insert_impl(Pool, msg, deadline).id)
          /\ \A id \in placeholders : Absent(id))
    /\ [][LifecycleStep]_vars

\* C25 witness: an id has been returned while both queues still hold an entry
\* for it, has_expired_deadlines is true on the strength of that entry, and the
\* store holds other messages, one of them inserted under a later id.
C25_Witness ==
    \E id \in removed :
        /\ HasEntry(deadline_queue, id)
        /\ HasEntry(size_queue, id)
        /\ \E now \in Times :
              /\ has_expired_deadlines(Pool, now)
              /\ expire_messages(Pool, now).expired = << >>
        /\ \E j \in DOMAIN messages : j > id

\* The id cannot be seen in pool p: no lookup and no take finds it, under
\* either kind, no expire_messages and no run of shed_largest_message returns
\* it, and neither queue holds an entry for it.
Unobservable(p, id) ==
    /\ NothingUnder(p, id)
    /\ take(p, RequestRef(id)).taken = << >> /\ take(p, RequestRef(id)).pool = p
    /\ take(p, ResponseRef(id)).taken = << >> /\ take(p, ResponseRef(id)).pool = p
    /\ NeverExpires(p, id)
    /\ id \notin ResultIds(ShedUntilNothing(p))
    /\ ~HasEntry(p.deadline_queue, id)
    /\ ~HasEntry(p.size_queue, id)

\* C26: insert_inbound_timeout_response changes the counter and nothing else
\* (store, len, byte total and both queues stay), the reserved id cannot be
\* seen right after the reservation, and no outstanding placeholder's id can be
\* seen in any reachable state.
C26_PlaceholderUnobservable ==
    /\ LET r == insert_inbound_timeout_response(Pool)
       IN /\ r.pool = [Pool EXCEPT !.next_message_id = next_message_id + 1]
          /\ r.pool.messages = messages
          /\ len(r.pool) = len(Pool)
          /\ r.pool.size_bytes = size_bytes
          /\ r.pool.deadline_queue = deadline_queue
          /\ r.pool.size_queue = size_queue
          /\ r.id = next_message_id
          /\ Unobservable(r.pool, r.id)
    /\ \A id \in placeholders : Unobservable(Pool, id)

\* C26 witness: a placeholder is outstanding between two stored best-effort
\* messages, one inserted before its reservation and one after, both with
\* entries in both queues.
C26_Witness ==
    \E id \in placeholders : \E i, j \in DOMAIN messages :
        /\ i < id /\ id < j
        /\ HasEntry(deadline_queue, i) /\ HasEntry(size_queue, i)
        /\ HasEntry(deadline_queue, j) /\ HasEntry(size_queue, j)

\* The sequences that hold the entries of queue q in some other order of
\* pushing (no entry occurs twice in a queue).
Reorderings(q) ==
    {r \in [1..Len(q) -> Entries(q)] : \A e \in Entries(q) : \E i \in 1..Len(q) : r[i] = e}

\* The pools that differ from p at most in the order in which the entries of
\* one of the two queues were pushed.
SameEntries(p) ==
    {[p EXCEPT !.deadline_queue = dq] : dq \in Reorderings(p.deadline_queue)}
        \cup {[p EXCEPT !.size_queue = sq] : sq \in Reorderings(p.size_queue)}

\* Pools p and q agree on store, byte total and counter and on the entries each
\* queue holds.
SameContent(p, q) ==
    /\ p.messages = q.messages
    /\ p.size_bytes = q.size_bytes
    /\ p.next_message_id = q.next_message_id
    /\ Entries(p.deadline_queue) = Entries(q.deadline_queue)
    /\ Len(p.deadline_queue) = Len(q.deadline_queue)
    /\ Entries(p.size_queue) = Entries(q.size_queue)
    /\ Len(p.size_queue) = Len(q.size_queue)

\* C27: what an operation returns and the pool it leaves depend on store, byte
\* total, counter and the set of entries each queue holds, not on the order in
\* which the entries were pushed: on a pool with the entries of either queue pushed
\* in any other order, expire_messages returns the same list in the same order,
\* shed_largest_message the same message, take the same message, insertions the
\* same id, and each leaves a pool with the same content.
C27_PopOrderIndependentOfPushOrder ==
    /\ Len(deadline_queue) = Cardinality(Entries(deadline_queue))
    /\ Len(size_queue) = Cardinality(Entries(size_queue))
    /\ \A now \in Times :
          LET here == expire_messages(Pool, now)
          IN \A q \in SameEntries(Pool) :
                LET there == expire_messages(q, now)
                IN /\ there.expired = here.expired
                   /\ SameContent(there.pool, here.pool)
                   /\ has_expired_deadlines(q, now) = has_expired_deadlines(Pool, now)
    /\ LET here == shed_largest_message(Pool)
           all == ShedUntilNothing(Pool)
       IN \A q \in SameEntries(Pool) :
             LET there == shed_largest_message(q)
             IN /\ there.shed = here.shed
                /\ SameContent(there.pool, here.pool)
                /\ ShedUntilNothing(q) = all
    /\ \A ref \in References :
          LET here == take(Pool, ref)
          IN \A q \in SameEntries(Pool) :
                LET there == take(q, ref)
                IN there.taken = here.taken /\ SameContent(there.pool, here.pool)
    /\ \A msg \in Message :
          LET here == insert_inbound(Pool, msg)
          IN \A q \in SameEntries(Pool) :
                LET there == insert_inbound(q, msg)
                IN there.id = here.id /\ SameContent(there.pool, here.pool)

\* C27 witness: two stored messages have entries with the same deadline in the
\* deadline queue and entries with the same size in the load shedding queue,
\* and an expire_messages call returns both.
C27_Witness ==
    \E i, j \in DOMAIN messages : \E d \in Deadlines, n \in Sizes, now \in Times :
        /\ i # j
        /\ Holds(deadline_queue, <<d, i>>) /\ Holds(deadline_queue, <<d, j>>)
        /\ Holds(size_queue, <<n, i>>) /\ Holds(size_queue, <<n, j>>)
        /\ {i, j} \subseteq ResultIds(expire_messages(Pool, now).expired)

\* In neither queue of pool p do the entries of ids that are no longer stored
\* outnumber the entries of stored ids.
StaleNoMoreThanLive(p) ==
    /\ 2 * Len(StaleEntries(p, p.deadline_queue)) <= Len(p.deadline_queue)
    /\ 2 * Len(StaleEntries(p, p.size_queue)) <= Len(p.size_queue)

\* C29 as stated: after a take, an expire_messages or a shed_largest_message
\* that removed a message, in neither queue do stale entries outnumber the
\* entries of stored messages.
C29_StaleNeverOutnumberLive ==
    /\ \A ref \in References :
          take(Pool, ref).taken # << >> => StaleNoMoreThanLive(take(Pool, ref).pool)
    /\ \A now \in Times :
          expire_messages(Pool, now).expired # << >> =>
              StaleNoMoreThanLive(expire_messages(Pool, now).pool)
    /\ shed_largest_message(Pool).shed # << >> =>
          StaleNoMoreThanLive(shed_largest_message(Pool).pool)

\* C29, the failing case: the store holds a message, every entry of the load
\* shedding queue is stale, and the queue was left unpruned.
C29_AllStaleUnpruned ==
    /\ removed # {}
    /\ messages # << >>
    /\ size_queue # << >>
    /\ StaleEntries(Pool, size_queue) = size_queue

\* The entries that queue q holds for the id, in the order of pushing.
EntriesOf(q, id) == SelectSeq(q, LAMBDA e : e[2] = id)

\* The entries that a stored message must have: one in the deadline queue iff
\* it was inserted with a deadline, one in the load shedding queue iff it is
\* best-effort.
DeadlineEntriesDue(id) ==
    IF recorded[id] # NO_DEADLINE THEN << <<recorded[id], id>> >> ELSE << >>
SizeEntriesDue(id) ==
    IF is_best_effort(messages[id]) THEN << <<count_bytes(messages[id]), id>> >> ELSE << >>

\* A step leaves the entries of every message that stays in the store.
EntriesKeptStep ==
    \A id \in (DOMAIN messages) \cap (DOMAIN messages') :
        /\ EntriesOf(deadline_queue', id) = EntriesOf(deadline_queue, id)
        /\ EntriesOf(size_queue', id) = EntriesOf(size_queue, id)

\* C30: while a message is stored, the deadline queue holds exactly one entry
\* for it if it was inserted with a deadline and none otherwise, and the load
\* shedding queue holds exactly one entry for it if it is best-effort and none
\* otherwise; no step changes the entries of a message that stays stored; and
\* pruning a queue, whether or not its length calls for it, keeps them.
C30_EntriesSetOnce ==
    /\ [](\A id \in DOMAIN messages :
             /\ EntriesOf(deadline_queue, id) = DeadlineEntriesDue(id)
             /\ EntriesOf(size_queue, id) = SizeEntriesDue(id)
             /\ EntriesOf(Retain(deadline_queue, messages), id) = DeadlineEntriesDue(id)
             /\ EntriesOf(Retain(size_queue, messages), id) = SizeEntriesDue(id)
             /\ EntriesOf(maybe_trim_queues(Pool).deadline_queue, id) = DeadlineEntriesDue(id)
             /\ EntriesOf(maybe_trim_queues(Pool).size_queue, id) = SizeEntriesDue(id))
    /\ [][EntriesKeptStep]_vars

\* C30 witness: a stored message has its entry in both queues, between stale
\* entries of removed messages pushed before and after it, and pruning the
\* queues now would drop those and keep its own.
C30_Witness ==
    \E id \in DOMAIN messages : \E i, j \in removed :
        /\ i < id /\ id < j
        /\ EntriesOf(deadline_queue, id) # << >> /\ EntriesOf(size_queue, id) # << >>
        /\ EntriesOf(deadline_queue, i) # << >> /\ EntriesOf(size_queue, j) # << >>
        /\ Retain(deadline_queue, messages) = EntriesOf(deadline_queue, id)

\* Sequence a is the beginning of sequence b.
IsPrefix(a, b) == Len(a) <= Len(b) /\ SubSeq(b, 1, Len(a)) = a

\* Pool q has everything pool p had: every stored message, unchanged, and every
\* entry of both queues, in place; at most one entry was pushed onto each.
KeepsAll(p, q) ==
    /\ \A id \in DOMAIN p.messages : id \in DOMAIN q.messages /\ q.messages[id] = p.messages[id]
    /\ IsPrefix(p.deadline_queue, q.deadline_queue)
    /\ IsPrefix(p.size_queue, q.size_queue)
    /\ Len(q.deadline_queue) <= Len(p.deadline_queue) + 1
    /\ Len(q.size_queue) <= Len(p.size_queue) + 1

\* C31: insert_inbound, insert_outbound_request, insert_outbound_response,
\* replace_inbound_timeout_response and insert_inbound_timeout_response remove
\* no entry from either queue, stale ones included, and remove or change no
\* stored message: each queue afterwards begins with the queue as it was.
C31_NoCompactionOnInsertion ==
    /\ \A msg \in Message :
          /\ KeepsAll(Pool, insert_inbound(Pool, msg).pool)
          /\ msg.kind = "Response" => KeepsAll(Pool, insert_outbound_response(Pool, msg).pool)
          /\ msg.kind = "Request" => \A now \in Times :
                KeepsAll(Pool, insert_outbound_request(Pool, msg, now).pool)
          /\ \A id \in placeholders :
                KeepsAll(Pool, replace_inbound_timeout_response(Pool, id, msg).pool)
    /\ KeepsAll(Pool, insert_inbound_timeout_response(Pool).pool)
    /\ insert_inbound_timeout_response(Pool).pool.deadline_queue = deadline_queue
    /\ insert_inbound_timeout_response(Pool).pool.size_queue = size_queue

\* C31 witness: a message was inserted through a placeholder and another
\* directly into a pool whose queues held stale entries, and those entries are
\* still there, ahead of the entries pushed by the insertions.
C31_Witness ==
    \E i \in removed : \E j \in filled : \E k \in (DOMAIN messages) \ filled :
        /\ i < k
        /\ Len(deadline_queue) > 1 /\ deadline_queue[1][2] = i
        /\ Len(size_queue) > 2 /\ size_queue[1][2] = i

\* The pools that a removal can hand to maybe_trim_queues from pool p: some of
\* the stored messages are gone, the queues are as they were or shorter by the
\* entries popped so far.
BeforeTrim(p) ==
    {[p EXCEPT !.messages = Restrict(p.messages, S),
               !.size_bytes = calculate_size_bytes(Restrict(p.messages, S)),
               !.deadline_queue = SubSeq(p.deadline_queue, k, Len(p.deadline_queue))] :
        S \in SUBSET DOMAIN p.messages, k \in 1..(Len(p.deadline_queue) + 1)}

\* Queue r holds exactly the entries of queue q whose id is stored in m, each
\* once and as it was, in the order they have in q.
ExactlyLiveEntries(r, q, m) ==
    /\ Entries(r) = {e \in Entries(q) : e[2] \in DOMAIN m}
    /\ Len(r) = Cardinality(Entries(r))
    /\ \A i, j \in DOMAIN r :
          i < j => \E a, b \in DOMAIN q : a < b /\ q[a] = r[i] /\ q[b] = r[j]

\* maybe_trim_queues did to queue q of pool p what C32 says.
TrimmedAsStated(p, q, r) ==
    IF Len(q) > 2 * len(p) + 2 THEN ExactlyLiveEntries(r, q, p.messages) ELSE r = q

\* C32: maybe_trim_queues, on every pool a removal can hand it, rebuilds a
\* queue longer than 2 * len() + 2 to exactly its entries of stored ids,
\* unchanged and each once, and leaves a queue at or below that length as it
\* was; store, byte total and counter stay; and retain, applied to a queue of
\* whatever length, keeps exactly the entries of stored ids.
C32_TrimKeepsExactlyLive ==
    \A p \in BeforeTrim(Pool) :
        LET t == maybe_trim_queues(p)
        IN /\ TrimmedAsStated(p, p.deadline_queue, t.deadline_queue)
           /\ TrimmedAsStated(p, p.size_queue, t.size_queue)
           /\ t.messages = p.messages
           /\ t.size_bytes = p.size_bytes
           /\ t.next_message_id = p.next_message_id
           /\ ExactlyLiveEntries(Retain(p.deadline_queue, p.messages),
                                 p.deadline_queue, p.messages)
           /\ ExactlyLiveEntries(Retain(p.size_queue, p.messages),
                                 p.size_queue, p.messages)

\* C32 witness: a take of the last stored message makes maybe_trim_queues
\* rebuild the load shedding queue, three stale entries long, and leave the
\* deadline queue, two stale entries long, as it is.
C32_Witness ==
    \E ref \in References :
        /\ take(Pool, ref).taken # << >>
        /\ len(take(Pool, ref).pool) = 0
        /\ Len(size_queue) = 3 /\ take(Pool, ref).pool.size_queue = << >>
        /\ Len(deadline_queue) = 2 /\ take(Pool, ref).pool.deadline_queue = deadline_queue

\* The stale entries of the deadline queue that expire_messages(now) pops.
StaleExpired(p, now) ==
    SelectSeq(StaleEntries(p, p.deadline_queue), LAMBDA e : e[1] < CoarseFloor(now))

\* The ids of the stored messages that expire_messages(now) pops an entry of.
LiveExpired(p, now) ==
    {e[2] : e \in {f \in Entries(p.deadline_queue) :
                      f[2] \in DOMAIN p.messages /\ f[1] < CoarseFloor(now)}}

\* C33: expire_messages pops every entry before floor(now), stale or not;
\* for a stale one it returns nothing and leaves the byte total alone, so the
\* result holds the stored messages among them and the byte total falls by
\* their sizes only; shed_largest_message pops stale entries until it removes a
\* stored message, or until the queue is empty, and the byte total falls by
\* the size of that message only. Neither panics.
C33_StaleEntriesSkipped ==
    /\ \A now \in Times :
          LET r == expire_messages(Pool, now)
          IN /\ r.stale = Len(StaleExpired(Pool, now))
             /\ ResultIds(r.expired) = LiveExpired(Pool, now)
             /\ Len(r.expired) = Cardinality(LiveExpired(Pool, now))
             /\ DOMAIN r.pool.messages = (DOMAIN messages) \ LiveExpired(Pool, now)
             /\ r.pool.size_bytes = size_bytes - SumSizes(messages, LiveExpired(Pool, now))
             /\ r.pool.size_bytes = calculate_size_bytes(r.pool.messages)
             /\ \A e \in Entries(r.pool.deadline_queue) : e[1] >= CoarseFloor(now)
    /\ LET r == shed_largest_message(Pool)
       IN /\ ResultIds(r.shed) \subseteq DOMAIN messages
          /\ DOMAIN r.pool.messages = (DOMAIN messages) \ ResultIds(r.shed)
          /\ r.pool.size_bytes = size_bytes - SumSizes(messages, ResultIds(r.shed))
          /\ r.stale + Len(r.shed) <= Len(size_queue)
          /\ r.stale > 0 =>
                \E e \in Entries(size_queue) :
                    /\ e[2] \notin DOMAIN messages
                    /\ \A i \in DOMAIN r.shed : SizeEntryGreater(e, <<count_bytes(r.shed[i][2]), r.shed[i][1]>>)
          /\ r.shed = << >> =>
                /\ r.stale = Len(size_queue)
                /\ r.pool.messages = messages
                /\ r.pool.size_bytes = size_bytes

\* C33 witness: an expire_messages call pops a stale entry and then returns a
\* stored message, and a shed_largest_message call skips a stale entry and then
\* returns a stored message.
C33_Witness ==
    /\ \E now \in Times :
          /\ expire_messages(Pool, now).stale > 0
          /\ expire_messages(Pool, now).expired # << >>
          /\ DeadlineEntryGreater(CHOOSE e \in Entries(StaleExpired(Pool, now)) : TRUE,
                                  CHOOSE e \in Entries(deadline_queue) :
                                      e[2] \in LiveExpired(Pool, now))
    /\ shed_largest_message(Pool).stale > 0
    /\ shed_largest_message(Pool).shed # << >>

\* C34: on the pool that expire_messages(now) leaves, has_expired_deadlines(now)
\* is false, and so it is for every earlier time: no entry of the deadline
\* queue, stale or not, has a deadline before floor(now).
C34_NothingExpiredAfterExpire ==
    \A now \in Times :
        LET q == expire_messages(Pool, now).pool
        IN /\ ~has_expired_deadlines(q, now)
           /\ \A earlier \in 0..now : ~has_expired_deadlines(q, earlier)
           /\ \A e \in Entries(q.deadline_queue) : ~(e[1] < CoarseFloor(now))

\* C34 witness: an expire_messages(now) call pops a stale entry, returns a
\* stored message, and leaves in the deadline queue an entry whose deadline is
\* equal to floor(now).
C34_Witness ==
    \E now \in Times :
        LET r == expire_messages(Pool, now)
        IN /\ r.stale > 0
           /\ r.expired # << >>
           /\ \E e \in Entries(r.pool.deadline_queue) : e[1] = CoarseFloor(now)

\* C35: where has_expired_deadlines(now) is false, expire_messages(now) returns
\* nothing, pops nothing and leaves store, byte total, both queues and counter
\* as they are: maybe_trim_queues, which it calls when the deadline queue is
\* not empty, prunes neither queue.
C35_ExpireIsNoOpWhenNothingExpired ==
    \A now \in Times :
        ~has_expired_deadlines(Pool, now) =>
            /\ expire_messages(Pool, now).expired = << >>
            /\ expire_messages(Pool, now).stale = 0
            /\ expire_messages(Pool, now).pool = Pool
            /\ maybe_trim_queues(Pool) = Pool

\* C35 witness: has_expired_deadlines(now) is false with a deadline queue that
\* is not empty, so that expire_messages reaches maybe_trim_queues, while both
\* queues hold nothing but stale entries and are as long as they may be.
C35_Witness ==
    \E now \in Times :
        /\ now > 0
        /\ ~has_expired_deadlines(Pool, now)
        /\ Len(deadline_queue) = 2 * len(Pool) + 2
        /\ Len(size_queue) = 2 * len(Pool) + 2
        /\ StaleEntries(Pool, deadline_queue) = deadline_queue
        /\ StaleEntries(Pool, size_queue) = size_queue

\* The stored best-effort messages as large as the largest of them.
LargestBestEffortIds(p) ==
    {id \in BestEffortIds(p) :
        \A other \in BestEffortIds(p) :
            count_bytes(p.messages[other]) <= count_bytes(p.messages[id])}

\* C36: the message that shed_largest_message returns is, among the stored
\* best-effort messages of the largest size, the one with the highest id; and
\* shed_largest_message repeated returns messages of equal size in descending
\* order of id.
C36_EqualSizesHighestIdFirst ==
    /\ LET r == shed_largest_message(Pool)
       IN /\ r.shed # << >> <=> BestEffortIds(Pool) # {}
          /\ r.shed # << >> =>
                /\ r.shed[1][1] \in LargestBestEffortIds(Pool)
                /\ \A id \in LargestBestEffortIds(Pool) : id <= r.shed[1][1]
    /\ LET out == ShedUntilNothing(Pool)
       IN \A i, j \in DOMAIN out :
             (i < j /\ count_bytes(out[i][2]) = count_bytes(out[j][2])) => out[i][1] > out[j][1]

\* C36 witness: two stored best-effort messages have the largest size, a stale
\* entry of that size and a higher id is in the load shedding queue ahead of
\* theirs, and shed_largest_message returns the one with the higher id of the
\* two.
C36_Witness ==
    \E i, j \in LargestBestEffortIds(Pool) : \E k \in removed :
        /\ i < j /\ j < k
        /\ Holds(size_queue, <<count_bytes(messages[j]), k>>)
        /\ shed_largest_message(Pool).stale = 1
        /\ shed_largest_message(Pool).shed = << <<j, messages[j]>> >>

\* The stored guaranteed messages that were inserted without a deadline: by
\* insert_inbound, request or response, or by insert_outbound_response.
GuaranteedWithoutDeadline ==
    {id \in DOMAIN messages : ~is_best_effort(messages[id]) /\ recorded[id] = NO_DEADLINE}

\* The reference of the kind of the message stored under the id.
MatchingRef(id) == [kind |-> messages[id].kind, id |-> id]

\* A step that removes such a message is a take with the matching reference.
OnlyTakeRemovesStep ==
    \A id \in GuaranteedWithoutDeadline :
        id \notin DOMAIN messages' =>
            /\ take(Pool, MatchingRef(id)).taken = << <<id, messages[id]>> >>
            /\ messages' = take(Pool, MatchingRef(id)).pool.messages
            /\ size_bytes' = take(Pool, MatchingRef(id)).pool.size_bytes
            /\ \A now \in Times : messages' # expire_messages(Pool, now).pool.messages
            /\ messages' # shed_largest_message(Pool).pool.messages

\* C37: a guaranteed message gets no entry in either queue from insert_inbound,
\* and a guaranteed response none from insert_outbound_response; while it is
\* stored it has no entry in either queue, no expire_messages and no run of
\* shed_largest_message returns or removes it, take with the matching reference
\* returns it, and the only step that removes it is that take.
C37_GuaranteedLeavesOnlyByTake ==
    /\ [](/\ \A msg \in Message :
                ~is_best_effort(msg) =>
                    /\ insert_inbound(Pool, msg).pool.deadline_queue = deadline_queue
                    /\ insert_inbound(Pool, msg).pool.size_queue = size_queue
                    /\ msg.kind = "Response" =>
                          /\ insert_outbound_response(Pool, msg).pool.deadline_queue
                                 = deadline_queue
                          /\ insert_outbound_response(Pool, msg).pool.size_queue = size_queue
          /\ \A id \in GuaranteedWithoutDeadline :
                /\ ~HasEntry(deadline_queue, id)
                /\ ~HasEntry(size_queue, id)
                /\ NeverExpires(Pool, id)
                /\ \A now \in Times : id \in DOMAIN expire_messages(Pool, now).pool.messages
                /\ id \notin ResultIds(ShedUntilNothing(Pool))
                /\ id \in DOMAIN PoolAfterShedding(Pool).messages
                /\ id \in DOMAIN PoolAfterShedding(expire_messages(Pool, MaxNow).pool).messages
                /\ take(Pool, MatchingRef(id)).taken = << <<id, messages[id]>> >>)
    /\ [][OnlyTakeRemovesStep]_vars

\* C37 witness: a guaranteed request and a guaranteed response are stored
\* without a deadline next to a best-effort message that the latest
\* expire_messages returns and shed_largest_message returns.
C37_Witness ==
    /\ \E i, j \in GuaranteedWithoutDeadline :
          messages[i].kind = "Request" /\ messages[j].kind = "Response"
    /\ expire_messages(Pool, MaxNow).expired # << >>
    /\ shed_largest_message(Pool).shed # << >>

\* No two entries of the queue carry the same id.
OneEntryPerId(q) == \A i, j \in DOMAIN q : q[i][2] = q[j][2] => i = j

\* C38: in every reachable state no id occurs twice in the deadline queue or
\* twice in the load shedding queue, entries of removed messages included, and
\* every id of the store and of either queue is below next_message_id.
C38_OneEntryPerIdBelowCounter ==
    /\ OneEntryPerId(deadline_queue)
    /\ OneEntryPerId(size_queue)
    /\ \A id \in DOMAIN messages : id < next_message_id
    /\ \A i \in DOMAIN deadline_queue : deadline_queue[i][2] < next_message_id
    /\ \A i \in DOMAIN size_queue : size_queue[i][2] < next_message_id

\* C38 witness: every id has been handed out, one of them through a
\* placeholder, and both queues hold the entry of a stored message and the
\* stale entry of a removed one.
C38_Witness ==
    /\ next_message_id = MaxIds
    /\ filled # {}
    /\ \E i \in removed : HasEntry(deadline_queue, i) /\ HasEntry(size_queue, i)
    /\ \E j \in DOMAIN messages : HasEntry(deadline_queue, j) /\ HasEntry(size_queue, j)

====
